---- MODULE Spec2Model ----
(***************************************************************************)
(* Label-labs: the undo/redo history hook (src/hooks/useHistoryState.ts)   *)
(* and the generation handlers of the App component (src/unnamed/part_000) *)
(* with the controls of ControlPanel.tsx and PreviewArea.tsx that invoke   *)
(* them.                                                                   *)
(*                                                                         *)
(* React state is modelled as the variables below.  A handler runs to its  *)
(* first await in one step; every callback it holds is the closure of the  *)
(* render it was created in, so the history and cursor a callback reads    *)
(* are the captured ones ("cap"), while the state it updates is the        *)
(* current one ("cur").                                                    *)
(*                                                                         *)
(* Spec drives the App through its controls.  ControlPanel's tab and View  *)
(* buttons are left out of Spec: nothing in the source fills a mockup      *)
(* slot (generateMockup is imported but never called), and with both       *)
(* slots null the only reader of mockupView, the refinement target rule,   *)
(* does not depend on it.  HandlerSpec calls handleRefine directly on any  *)
(* design and any view.  HistorySpec drives the hook on its own.           *)
(* PanelSpec adds ControlPanel's tabs and its suggestion requests to the   *)
(* label generation controls.  ServiceSpec runs the image functions of     *)
(* geminiService.ts and counts the remote calls they issue.  LiveSpec is   *)
(* Spec with every service call and file read coming to an end.            *)
(***************************************************************************)
EXTENDS Integers, Sequences, FiniteSets, Bags, TLC

VARIABLES
    history,          \* useHistoryState: T[]
    currentIndex,     \* useHistoryState: cursor, 0-based as in the code
    labelVariations,  \* App: string[]
    isLoading,        \* App: boolean
    loadingMessage,   \* App: string
    error,            \* App: string | null
    currentStep,      \* App: GenerationStep | null
    triggeredAction,  \* App: TriggeredAction
    mockupView,       \* App: MockupView
    pending,          \* asynchronous operations in flight (a bag of Op records)
    activeTab,        \* ControlPanel: 'label' | 'packaging'
    suggestions,      \* ControlPanel: { field, list } | null
    suggestionError,  \* ControlPanel: string | null
    suggestionLoadingField,  \* ControlPanel: string | null
    labelData,        \* App: LabelData, the fields with a suggestion button
    packagingData,    \* App: PackagingData, with the keys a suggestion brings
    logoFile,         \* App: the uploaded logo | null
    service,          \* geminiService: the function running and its remote calls
    overlaps,         \* environment: operations started while another was in flight
    event,            \* observer: the last call or user intent and its argument
    probe             \* observer: the store before the last undo of a writes-only run

vars == <<history, currentIndex, labelVariations, isLoading, loadingMessage, error,
          currentStep, triggeredAction, mockupView, pending, activeTab, suggestions,
          suggestionError, suggestionLoadingField, labelData, packagingData,
          logoFile, service, overlaps, event, probe>>

\* The form state ControlPanel's suggestion handlers write.
formVars == <<labelData, packagingData>>

\* The logo and the service function that reads it.
serviceVars == <<logoFile, service>>

\* What the generation handlers of App and the history hook never write.
panelVars == <<activeTab, suggestions, suggestionError, suggestionLoadingField,
               formVars, serviceVars>>

appVars == <<labelVariations, isLoading, loadingMessage, error, currentStep,
             triggeredAction, mockupView, pending, overlaps, panelVars>>

-----------------------------------------------------------------------------
(* Bounds *)

\* Longest history the hook is driven to on its own.
MaxHookHistory == 4

\* Longest history the App is driven to.
MaxHistory == 3

\* Most operations, in one run, that the user starts while an earlier one is
\* still in flight.
MaxOverlaps == 2

-----------------------------------------------------------------------------
(* Values *)

\* JavaScript null; a token distinct from every string of Images.
Null == "<null>"

\* Image payloads (base64 strings).  One of them spells the word null.
Images == {"A", "null"}

\* A falsy payload: inlineData.data is typed string | undefined.
NoData == ""

Design(label, front, back) ==
    [generatedLabel |-> label, generatedMockup |-> [front |-> front, back |-> back]]

EmptyDesign == Design(Null, Null, Null)

DesignStates ==
    { Design(l, f, b) : l \in Images \cup {Null}, f \in Images \cup {Null},
                        b \in Images \cup {Null} }

\* The snapshots the hook is exercised with on its own.
HookValues == { Design(l, Null, Null) : l \in Images \cup {Null} }
                  \cup { Design(Null, "A", Null) }

MockupViews == {"front", "back", "front-back"}

\* useState<LabelData>({...}), the two fields kept.
InitialLabelData ==
    [productName |-> "Organic Hair Shampoo", tagline |-> "Nourish & Revitalize"]

\* useState<PackagingData>({...}), three of its keys; the initial object has
\* no finish.
InitialPackagingData ==
    [preset |-> "White Plastic Shampoo Bottle", finish |-> Null,
     placement |-> [rotation |-> 0, offsetX |-> 0, offsetY |-> 0]]

\* No service function has been called yet.
ServiceIdle == [fn |-> "idle", at |-> <<>>, generateImages |-> 0, generateContent |-> 0]

-----------------------------------------------------------------------------
(* JSON.stringify on a DesignState *)

JSONvalue(v) == IF v = Null THEN "null" ELSE "\"" \o v \o "\""

JSONstringify(d) ==
    "{\"generatedLabel\":" \o JSONvalue(d.generatedLabel)
        \o ",\"generatedMockup\":{\"front\":" \o JSONvalue(d.generatedMockup.front)
        \o ",\"back\":" \o JSONvalue(d.generatedMockup.back) \o "}}"

-----------------------------------------------------------------------------
(* useHistoryState *)

Store(h, i) == [history |-> h, currentIndex |-> i]

curStore == Store(history, currentIndex)

\* const state = history[currentIndex]
stateOf(st) == st.history[st.currentIndex + 1]

state == stateOf(curStore)

\* history.slice(0, currentIndex + 1)
slice(h, n) == SubSeq(h, 1, IF n < Len(h) THEN n ELSE Len(h))

setState_reference_equality(cur, cap, newState) ==
    LET newHistory == Append(slice(cap.history, cap.currentIndex + 1), newState)
    IN  Store(newHistory, Len(newHistory) - 1)

setState_keeps_redo(cur, cap, newState) ==
    IF JSONstringify(newState) = JSONstringify(stateOf(cap))
    THEN cur
    ELSE LET newHistory == Append(cap.history, newState)
         IN  Store(newHistory, Len(newHistory) - 1)

\* setState called through the closure of a render whose store was cap, while
\* the store is cur.
setState(cur, cap, newState) ==
    IF JSONstringify(newState) = JSONstringify(stateOf(cap))
    THEN cur
    ELSE LET newHistory == Append(slice(cap.history, cap.currentIndex + 1), newState)
         IN  Store(newHistory, Len(newHistory) - 1)

undo_to_start(cur, cap) == [cur EXCEPT !.currentIndex = 0]

undo_unguarded(cur, cap) == [cur EXCEPT !.currentIndex = cap.currentIndex - 1]

undo(cur, cap) ==
    IF cap.currentIndex > 0
    THEN [cur EXCEPT !.currentIndex = cap.currentIndex - 1]
    ELSE cur

redo_unguarded(cur, cap) == [cur EXCEPT !.currentIndex = cap.currentIndex + 1]

redo(cur, cap) ==
    IF cap.currentIndex < Len(cap.history) - 1
    THEN [cur EXCEPT !.currentIndex = cap.currentIndex + 1]
    ELSE cur

reset_keeps_cursor(cur, newState) == Store(<<newState>>, cur.currentIndex)

reset(cur, newState) == Store(<<newState>>, 0)

canUndo == currentIndex > 0

canRedo == currentIndex < Len(history) - 1

-----------------------------------------------------------------------------
(* Observers *)

\* result is the payload a service call returned, "" when the step is no reply.
Reply(op, arg, result) == [op |-> op, arg |-> arg, result |-> result]

Event(op, arg) == Reply(op, arg, "")

NoProbe == [phase |-> "other", pre |-> Store(<<EmptyDesign>>, 0)]

WritesProbe == [phase |-> "writes", pre |-> Store(<<EmptyDesign>>, 0)]

\* Left by the step in which a refine wrote its result: the store the write
\* was made on, cut after its cursor.  An undo taken next, with the hook's
\* own undo, moves it on as it does for a run of writes.
Refined(op) ==
    [phase |-> "writes",
     pre |-> Store(slice(op.cap.history, op.cap.currentIndex + 1), op.cap.currentIndex)]

\* Left by the step that invokes a main handler: the store it was invoked on.
\* A file read that completes right after its analyze intent keeps it; any
\* other step puts NoProbe back.
Invoked == [phase |-> "invoked", pre |-> Store(history, currentIndex)]

\* The hook called directly, each call through the callbacks of the latest render.

HookSetState(x) ==
    /\ currentIndex + 2 <= MaxHookHistory
    /\ LET st == setState(curStore, curStore, x)
       IN  /\ history' = st.history
           /\ currentIndex' = st.currentIndex
    /\ event' = Event("setState", x)
    /\ probe' = IF probe.phase = "writes" THEN probe ELSE NoProbe
    /\ UNCHANGED appVars

HookUndo ==
    /\ LET st == undo(curStore, curStore)
       IN  /\ history' = st.history
           /\ currentIndex' = st.currentIndex
    /\ event' = Event("undo", EmptyDesign)
    /\ probe' = IF probe.phase = "writes"
                THEN [phase |-> "undone", pre |-> curStore]
                ELSE NoProbe
    /\ UNCHANGED appVars

HookRedo ==
    /\ LET st == redo(curStore, curStore)
       IN  /\ history' = st.history
           /\ currentIndex' = st.currentIndex
    /\ event' = Event("redo", EmptyDesign)
    /\ probe' = IF probe.phase = "undone"
                THEN [probe EXCEPT !.phase = "redone"]
                ELSE NoProbe
    /\ UNCHANGED appVars

HookReset(x) ==
    /\ LET st == reset(curStore, x)
       IN  /\ history' = st.history
           /\ currentIndex' = st.currentIndex
    /\ event' = Event("reset", x)
    /\ probe' = NoProbe
    /\ UNCHANGED appVars

AppInit ==
    /\ labelVariations = <<>>
    /\ isLoading = FALSE
    /\ loadingMessage = ""
    /\ error = Null
    /\ currentStep = Null
    /\ triggeredAction = Null
    /\ pending = EmptyBag
    /\ overlaps = 0
    /\ activeTab = "label"
    /\ suggestions = [field |-> Null, list |-> <<>>]
    /\ suggestionError = Null
    /\ suggestionLoadingField = Null
    /\ labelData = InitialLabelData
    /\ packagingData = InitialPackagingData
    /\ logoFile = Null
    /\ service = ServiceIdle

\* useHistoryState(initialState) for an initial snapshot of the caller's choice.
HookInit ==
    /\ \E x \in HookValues : history = <<x>>
    /\ currentIndex = 0
    /\ event = Event("init", EmptyDesign)
    /\ probe = WritesProbe
    /\ mockupView = "front"
    /\ AppInit

HookNext ==
    \/ \E x \in HookValues : HookSetState(x)
    \/ HookUndo
    \/ HookRedo
    \/ \E x \in HookValues : HookReset(x)

HistorySpec == HookInit /\ [][HookNext]_vars

-----------------------------------------------------------------------------
(* App: asynchronous operations in flight *)

\* A service call that has not returned yet.
Waiting == "<waiting>"

\* generateLabelVariations(..., 3)
VariationCount == 3

\* One operation between its start and the end of its handler.  cap is the
\* store of the render whose setDesign the handler holds (NoCapture for the
\* handlers that hold only resetHistory, which reads nothing of its render);
\* target and image are handleRefine's refinementTarget and imageToRefine;
\* replies holds one entry per service call the operation has issued.
Op(kind, stage, cap, target, image, replies) ==
    [kind |-> kind, stage |-> stage, cap |-> cap, target |-> target,
     image |-> image, replies |-> replies]

NoCapture == Store(<<EmptyDesign>>, 0)

Started(op) == pending (+) SetToBag({op})

Finished(op) == pending (-) SetToBag({op})

\* What a service function can return: the data of the first inline part.
Payloads == Images \cup {NoData}

\* What the calls of one variations batch can return, in request order: every
\* batch of images, and the batches in which one call returned no data.
VariationReplies ==
    [1..VariationCount -> Images]
        \cup { [j \in 1..VariationCount |-> IF j = k THEN NoData ELSE "A"] :
                  k \in 1..VariationCount }

truthy(v) == v # Null /\ v # NoData

NoImageMessage(kind) ==
    CASE kind = "single"     -> "Could not generate label image. The AI did not return an image."
      [] kind = "variations" -> "Could not generate label image. The AI did not return an image."
      [] kind = "analyze"    -> "Could not generate a similar design. The AI did not return an image."
      [] kind = "refine"     -> "Could not refine image. The AI did not return an image."

\* What a service function can throw: an Error, or a value that is no Error.
Thrown(kind) ==
    { [isError |-> TRUE, message |-> NoImageMessage(kind)],
      [isError |-> FALSE, message |-> ""] }

VariationsFailed == [isError |-> TRUE, message |-> "One or more variations failed to generate."]

NoTargetMessage ==
    "Please generate a label or select a single mockup view (Front or Back) to refine."

FileReadMessage == "Could not read the provided image file."

\* e instanceof Error ? e.message : 'An unknown error occurred.'
errorMessage(e) == IF e.isError THEN e.message ELSE "An unknown error occurred."

runGenerationStart_keeps_error ==
    /\ isLoading' = TRUE
    /\ UNCHANGED error

\* runGeneration up to its await.
runGenerationStart ==
    /\ isLoading' = TRUE
    /\ error' = Null

runGenerationEnd_without_finally(threw, e) ==
    /\ error' = IF threw THEN errorMessage(e) ELSE error
    /\ isLoading' = IF threw THEN isLoading ELSE FALSE
    /\ loadingMessage' = IF threw THEN loadingMessage ELSE ""
    /\ currentStep' = Null
    /\ triggeredAction' = Null

\* runGeneration from the end of its await: the catch block when the action
\* threw, then the finally block.
runGenerationEnd(threw, e) ==
    /\ error' = IF threw THEN errorMessage(e) ELSE error
    /\ isLoading' = FALSE
    /\ loadingMessage' = ""
    /\ currentStep' = Null
    /\ triggeredAction' = Null

setStore(st) ==
    /\ history' = st.history
    /\ currentIndex' = st.currentIndex

-----------------------------------------------------------------------------
(* App: handlers *)

handleGenerateLabel ==
    /\ labelVariations' = <<>>
    /\ currentStep' = "label"
    /\ triggeredAction' = "single"
    /\ loadingMessage' = "Designing your label..."
    /\ runGenerationStart
    /\ pending' = Started(Op("single", "call", curStore, Null, Null, <<Waiting>>))
    /\ UNCHANGED <<history, currentIndex, mockupView>>

handleGenerateVariations ==
    /\ setStore(reset(curStore, EmptyDesign))
    /\ currentStep' = "label"
    /\ triggeredAction' = "variations"
    /\ loadingMessage' = "Generating variations..."
    /\ runGenerationStart
    /\ pending' = Started(Op("variations", "call", NoCapture, Null, Null,
                                [k \in 1..VariationCount |-> Waiting]))
    /\ UNCHANGED <<labelVariations, mockupView>>

\* handleAnalyzeImage up to reader.readAsDataURL(file).
handleAnalyzeImage ==
    /\ pending' = Started(Op("analyze", "read", NoCapture, Null, Null, <<Waiting>>))
    /\ UNCHANGED <<history, currentIndex, labelVariations, isLoading, loadingMessage,
                   error, currentStep, triggeredAction, mockupView>>

\* reader.onload up to the await of runGeneration.
readerOnload(op) ==
    /\ labelVariations' = <<>>
    /\ currentStep' = "label"
    /\ triggeredAction' = "analyze"
    /\ loadingMessage' = "Analyzing image & generating design..."
    /\ runGenerationStart
    /\ pending' = Finished(op) (+) SetToBag({[op EXCEPT !.stage = "call"]})
    /\ UNCHANGED <<history, currentIndex, mockupView>>

readerOnerror(op) ==
    /\ error' = FileReadMessage
    /\ pending' = Finished(op)
    /\ UNCHANGED <<history, currentIndex, labelVariations, isLoading, loadingMessage,
                   currentStep, triggeredAction, mockupView>>

handleSelectVariation_keeps_set(selectedLabel) ==
    /\ setStore(setState(curStore, curStore, Design(selectedLabel, Null, Null)))
    /\ UNCHANGED <<labelVariations, isLoading, loadingMessage, error, currentStep,
                   triggeredAction, mockupView, pending>>

handleSelectVariation(selectedLabel) ==
    /\ setStore(setState(curStore, curStore, Design(selectedLabel, Null, Null)))
    /\ labelVariations' = <<>>
    /\ UNCHANGED <<isLoading, loadingMessage, error, currentStep, triggeredAction,
                   mockupView, pending>>

refinementTarget_label_first(design, view) ==
    IF truthy(design.generatedLabel) THEN "label"
    ELSE IF view = "front" /\ truthy(design.generatedMockup.front) THEN "mockup-front"
    ELSE IF view = "back" /\ truthy(design.generatedMockup.back) THEN "mockup-back"
    ELSE Null

refinementTarget_needs_view(design, view) ==
    IF view = "front" /\ truthy(design.generatedMockup.front) THEN "mockup-front"
    ELSE IF view = "back" /\ truthy(design.generatedMockup.back) THEN "mockup-back"
    ELSE Null

\* handleRefine: the if / else-if chain that picks the target.
refinementTarget(design, view) ==
    IF view = "front" /\ truthy(design.generatedMockup.front) THEN "mockup-front"
    ELSE IF view = "back" /\ truthy(design.generatedMockup.back) THEN "mockup-back"
    ELSE IF /\ ~truthy(design.generatedMockup.front)
            /\ ~truthy(design.generatedMockup.back)
            /\ truthy(design.generatedLabel) THEN "label"
    ELSE Null

imageToRefine_always_label(design, target) == design.generatedLabel

imageToRefine(design, target) ==
    CASE target = "mockup-front" -> design.generatedMockup.front
      [] target = "mockup-back"  -> design.generatedMockup.back
      [] target = "label"        -> design.generatedLabel
      [] OTHER                   -> Null

handleRefine ==
    LET target == refinementTarget(state, mockupView)
        image  == imageToRefine(state, target)
    IN  IF ~truthy(image) \/ target = Null
        THEN /\ error' = NoTargetMessage
             /\ UNCHANGED <<history, currentIndex, labelVariations, isLoading,
                            loadingMessage, currentStep, triggeredAction, mockupView,
                            pending>>
        ELSE /\ currentStep' = IF target = "label" THEN "refineLabel" ELSE "refineMockup"
             /\ triggeredAction' = "refine"
             /\ loadingMessage' = "Applying your changes..."
             /\ runGenerationStart
             /\ pending' = Started(Op("refine", "call", curStore, target, image,
                                        <<Waiting>>))
             /\ UNCHANGED <<history, currentIndex, labelVariations, mockupView>>

resultDesign_by_current_view(op, result) ==
    LET prev == stateOf(op.cap)
        now  == refinementTarget(prev, mockupView)
    IN  CASE now = "mockup-front" ->
               [prev EXCEPT !.generatedMockup.front = result]
          [] now = "mockup-back" ->
               [prev EXCEPT !.generatedMockup.back = result]
          [] OTHER -> Design(result, Null, Null)

resultDesign_fills_front(op, result) == Design(result, result, Null)

resultDesign_from_empty(op, result) ==
    CASE op.target = "mockup-front" ->
           [EmptyDesign EXCEPT !.generatedMockup.front = result]
      [] op.target = "mockup-back" ->
           [EmptyDesign EXCEPT !.generatedMockup.back = result]
      [] OTHER -> Design(result, Null, Null)

\* The snapshot a finished operation hands to setDesign or resetHistory.
resultDesign(op, result) ==
    LET prev == stateOf(op.cap)
    IN  CASE op.target = "mockup-front" ->
               [prev EXCEPT !.generatedMockup.front = result]
          [] op.target = "mockup-back" ->
               [prev EXCEPT !.generatedMockup.back = result]
          [] OTHER -> Design(result, Null, Null)

afterGeneration_analyze_writes(op, result) ==
    IF ~truthy(result)
    THEN UNCHANGED <<history, currentIndex, labelVariations>>
    ELSE /\ setStore(setState(curStore, IF op.kind = "analyze" THEN curStore ELSE op.cap,
                              resultDesign(op, result)))
         /\ UNCHANGED labelVariations

afterGeneration_writes_current(op, result) ==
    IF ~truthy(result)
    THEN UNCHANGED <<history, currentIndex, labelVariations>>
    ELSE /\ setStore(IF op.kind = "analyze"
                     THEN reset(curStore, resultDesign(op, result))
                     ELSE setState(curStore, curStore, resultDesign(op, result)))
         /\ UNCHANGED labelVariations

\* The part of a handler after `await runGeneration(...)` returned result.
afterGeneration(op, result) ==
    IF ~truthy(result)
    THEN UNCHANGED <<history, currentIndex, labelVariations>>
    ELSE CASE op.kind = "single" ->
                /\ setStore(setState(curStore, op.cap, resultDesign(op, result)))
                /\ UNCHANGED labelVariations
           [] op.kind = "refine" ->
                /\ setStore(setState(curStore, op.cap, resultDesign(op, result)))
                /\ UNCHANGED labelVariations
           [] op.kind = "analyze" ->
                /\ setStore(reset(curStore, resultDesign(op, result)))
                /\ UNCHANGED labelVariations

\* The service call of a label, analyze or refine operation returns result.
serviceResolves(op, result) ==
    /\ runGenerationEnd(FALSE, VariationsFailed)
    /\ afterGeneration(op, result)
    /\ pending' = Finished(op)
    /\ UNCHANGED <<mockupView>>

serviceRejects_clears_design(op, e) ==
    /\ runGenerationEnd(TRUE, e)
    /\ pending' = Finished(op)
    /\ setStore(reset(curStore, EmptyDesign))
    /\ UNCHANGED <<labelVariations, mockupView>>

serviceRejects_stays_busy(op, e) ==
    /\ error' = errorMessage(e)
    /\ pending' = Finished(op)
    /\ UNCHANGED <<isLoading, loadingMessage, currentStep, triggeredAction>>
    /\ UNCHANGED <<history, currentIndex, labelVariations, mockupView>>

\* The service call of a label, analyze or refine operation throws e.
serviceRejects(op, e) ==
    /\ runGenerationEnd(TRUE, e)
    /\ pending' = Finished(op)
    /\ UNCHANGED <<history, currentIndex, labelVariations, mockupView>>

variationsResolve_keeps_partial(op, results) ==
    /\ runGenerationEnd(\E j \in 1..VariationCount : ~truthy(results[j]), VariationsFailed)
    /\ labelVariations' = SelectSeq(results, LAMBDA v : truthy(v))
    /\ pending' = Finished(op)
    /\ UNCHANGED <<history, currentIndex, mockupView>>

\* generateLabelVariations: every call of the batch has returned, results in
\* request order.  The arrival of a single reply changes nothing the program
\* reads, so the replies are delivered together when Promise.all settles.
variationsResolve(op, results) ==
    LET bad == \E j \in 1..VariationCount : ~truthy(results[j])
    IN  /\ runGenerationEnd(bad, VariationsFailed)
        /\ labelVariations' = IF bad THEN labelVariations ELSE results
        /\ pending' = Finished(op)
        /\ UNCHANGED <<history, currentIndex, mockupView>>

\* generateLabelVariations: call k of the batch throws e.  Promise.all rejects
\* at once; the replies of the other calls are dropped.
variationsReject(op, k, e) ==
    /\ runGenerationEnd(TRUE, e)
    /\ pending' = Finished(op)
    /\ UNCHANGED <<history, currentIndex, labelVariations, mockupView>>

-----------------------------------------------------------------------------
(* The controls of ControlPanel and PreviewArea *)

controlDisabled_never == FALSE

\* ControlPanel: disabled={isLoading} on the submit button, the variations
\* button and the analyze file input.
controlDisabled == isLoading

\* PreviewArea: showControls.
showControls ==
    /\ ~isLoading
    /\ Len(labelVariations) = 0
    /\ \/ mockupView = "front" /\ truthy(state.generatedMockup.front)
       \/ mockupView = "back" /\ truthy(state.generatedMockup.back)
       \/ /\ ~(truthy(state.generatedMockup.front) \/ truthy(state.generatedMockup.back))
          /\ truthy(state.generatedLabel)

\* Room for one more history entry within the bound.
Room == currentIndex + 2 <= MaxHistory

\* An operation starts: within the bound when another is in flight.
Overlap ==
    IF pending = EmptyBag
    THEN overlaps' = overlaps
    ELSE overlaps < MaxOverlaps /\ overlaps' = overlaps + 1

\* The user presses "Generate Label"; a disabled button drops the press.
SubmitGenerateLabel ==
    /\ event' = Event("generateLabel", EmptyDesign)
    /\ probe' = IF controlDisabled THEN NoProbe ELSE Invoked
    /\ UNCHANGED panelVars
    /\ IF controlDisabled
       THEN UNCHANGED <<history, currentIndex, labelVariations, isLoading,
                        loadingMessage, error, currentStep, triggeredAction,
                        mockupView, pending, overlaps>>
       ELSE Room /\ Overlap /\ handleGenerateLabel

ClickGenerateVariations ==
    /\ ~controlDisabled
    /\ Room
    /\ handleGenerateVariations
    /\ event' = Event("generateVariations", EmptyDesign)
    /\ probe' = Invoked
    /\ Overlap
    /\ UNCHANGED panelVars

ChooseAnalyzeFile ==
    /\ ~controlDisabled
    /\ Overlap
    /\ UNCHANGED panelVars
    /\ handleAnalyzeImage
    /\ event' = Event("analyzeImage", EmptyDesign)
    /\ probe' = Invoked

FileReadDone(op) ==
    /\ op.stage = "read"
    /\ readerOnload(op)
    /\ event' = Event("reader.onload", EmptyDesign)
    /\ probe' = IF event.op = "analyzeImage" THEN probe ELSE NoProbe
    /\ UNCHANGED <<overlaps, panelVars>>

FileReadFails(op) ==
    /\ op.stage = "read"
    /\ readerOnerror(op)
    /\ event' = Event("reader.onerror", EmptyDesign)
    /\ probe' = NoProbe
    /\ UNCHANGED <<overlaps, panelVars>>

ClickVariation(n) ==
    /\ Len(labelVariations) > 0
    /\ ~isLoading
    /\ currentIndex + 2 <= MaxHistory
    /\ handleSelectVariation(labelVariations[n])
    /\ event' = Event("selectVariation", Design(labelVariations[n], Null, Null))
    /\ probe' = NoProbe
    /\ UNCHANGED <<overlaps, panelVars>>

SubmitRefine ==
    /\ showControls
    /\ Room
    /\ handleRefine
    /\ event' = Event("refine", EmptyDesign)
    /\ probe' = Invoked
    /\ Overlap
    /\ UNCHANGED panelVars

ClickUndo ==
    /\ showControls
    /\ canUndo /\ ~isLoading
    /\ setStore(undo(curStore, curStore))
    /\ event' = Event("undo", EmptyDesign)
    /\ probe' = NoProbe
    /\ UNCHANGED appVars

ClickRedo ==
    /\ showControls
    /\ canRedo /\ ~isLoading
    /\ setStore(redo(curStore, curStore))
    /\ event' = Event("redo", EmptyDesign)
    /\ probe' = NoProbe
    /\ UNCHANGED appVars

ServiceResolves(op, result) ==
    /\ op.stage = "call"
    /\ op.kind # "variations"
    /\ serviceResolves(op, result)
    /\ event' = Reply(op.kind \o ".resolved", resultDesign(op, result), result)
    /\ probe' = IF /\ op.kind = "refine"
                   /\ truthy(result)
                   /\ resultDesign(op, result) # stateOf(op.cap)
                THEN Refined(op)
                ELSE NoProbe
    /\ UNCHANGED <<overlaps, panelVars>>

ServiceRejects(op, e) ==
    /\ op.stage = "call"
    /\ op.kind # "variations"
    /\ serviceRejects(op, e)
    /\ event' = Event(op.kind \o ".rejected", EmptyDesign)
    /\ probe' = NoProbe
    /\ UNCHANGED <<overlaps, panelVars>>

\* The batch settles: generateLabelVariations returns results, or throws
\* when one of them is falsy.
VariationsResolve(op, results) ==
    /\ op.kind = "variations"
    /\ variationsResolve(op, results)
    /\ event' = Reply(IF \E j \in 1..VariationCount : ~truthy(results[j])
                       THEN "variations.rejected"
                       ELSE "variations.resolved", EmptyDesign, results)
    /\ probe' = NoProbe
    /\ UNCHANGED <<overlaps, panelVars>>

VariationsReject(op, k, e) ==
    /\ op.kind = "variations"
    /\ variationsReject(op, k, e)
    /\ event' = Event("variations.rejected", EmptyDesign)
    /\ probe' = NoProbe
    /\ UNCHANGED <<overlaps, panelVars>>

\* useHistoryState({ generatedLabel: null, generatedMockup: { front: null, back: null } })
Init ==
    /\ history = <<EmptyDesign>>
    /\ currentIndex = 0
    /\ event = Event("init", EmptyDesign)
    /\ probe = NoProbe
    /\ mockupView = "front"
    /\ AppInit

Next ==
    \/ SubmitGenerateLabel
    \/ ClickGenerateVariations
    \/ ChooseAnalyzeFile
    \/ \E op \in BagToSet(pending) : FileReadDone(op)
    \/ \E op \in BagToSet(pending) : FileReadFails(op)
    \/ \E n \in 1..Len(labelVariations) : ClickVariation(n)
    \/ SubmitRefine
    \/ ClickUndo
    \/ ClickRedo
    \/ \E op \in BagToSet(pending), result \in Payloads : ServiceResolves(op, result)
    \/ \E op \in BagToSet(pending) : \E e \in Thrown(op.kind) : ServiceRejects(op, e)
    \/ \E op \in BagToSet(pending), results \in VariationReplies :
           VariationsResolve(op, results)
    \/ \E op \in BagToSet(pending), k \in 1..VariationCount :
           \E e \in Thrown("variations") : VariationsReject(op, k, e)

Spec == Init /\ [][Next]_vars

\* The kinds of main operation.
Kinds == {"single", "variations", "analyze", "refine"}

\* The service call of an operation of this kind returns or throws.
Settles(kind) ==
    \E op \in BagToSet(pending) :
       /\ op.kind = kind
       /\ \/ \E result \in Payloads : ServiceResolves(op, result)
          \/ \E e \in Thrown(kind) : ServiceRejects(op, e)
          \/ \E results \in VariationReplies : VariationsResolve(op, results)
          \/ \E k \in 1..VariationCount, e \in Thrown(kind) : VariationsReject(op, k, e)

\* A file read ends, in onload or in onerror.
FileReadEnds ==
    \E op \in BagToSet(pending) : FileReadDone(op) \/ FileReadFails(op)

\* Spec for an environment in which every service call returns or throws and
\* every file read ends.
LiveSpec ==
    /\ Spec
    /\ WF_vars(FileReadEnds)
    /\ \A kind \in Kinds : WF_vars(Settles(kind))

-----------------------------------------------------------------------------
(* handleRefine on its own: the handler called with any design and any view *)
(* its types allow, whether or not PreviewArea would show the refine form.  *)

\* One call at a time.
InvokeRefine ==
    /\ pending = EmptyBag
    /\ Room
    /\ handleRefine
    /\ event' = Event("refine", EmptyDesign)
    /\ probe' = Invoked
    /\ UNCHANGED <<overlaps, panelVars>>

\* setMockupView(view)
SetMockupView(view) ==
    /\ view # mockupView
    /\ mockupView' = view
    /\ event' = Event("setMockupView", EmptyDesign)
    /\ probe' = NoProbe
    /\ UNCHANGED <<overlaps, panelVars>>
    /\ UNCHANGED <<history, currentIndex, labelVariations, isLoading, loadingMessage,
                   error, currentStep, triggeredAction, pending>>

\* PreviewArea: the undo and redo buttons are disabled while isLoading.
UndoWhenIdle == ~isLoading /\ HookUndo

RedoWhenIdle == ~isLoading /\ HookRedo

HandlerInit ==
    /\ \E d \in DesignStates : history = <<d>>
    /\ currentIndex = 0
    /\ \E view \in MockupViews : mockupView = view
    /\ event = Event("init", EmptyDesign)
    /\ probe = NoProbe
    /\ AppInit

HandlerNext ==
    \/ InvokeRefine
    \/ \E view \in MockupViews : SetMockupView(view)
    \/ \E op \in BagToSet(pending), result \in Payloads : ServiceResolves(op, result)
    \/ \E op \in BagToSet(pending) : \E e \in Thrown(op.kind) : ServiceRejects(op, e)
    \/ UndoWhenIdle
    \/ RedoWhenIdle

HandlerSpec == HandlerInit /\ [][HandlerNext]_vars

-----------------------------------------------------------------------------
(* ControlPanel: tabs and suggestion requests.  Of labelData the fields     *)
(* with a modelled suggestion button are kept, of packagingData the keys a   *)
(* suggestion brings and one it does not; typing into the forms is left out. *)

\* Two of the four fields with a suggestion button; the other two
\* ('aesthetic', 'colorPalette') run the same handler.
SuggestionFields == {"productName", "tagline"}

\* suggestions === null
NoSuggestions == [field |-> Null, list |-> <<>>]

\* The arrays of strings the text model can answer with.
SuggestionLists == {<<>>, <<"s", "t">>}

\* What the remote call of generateTextSuggestions can come back with: it
\* rejects, or its text is no JSON, a JSON value that is no array, an array
\* with an element that is no string, or an array of strings.
RemoteTexts ==
    { [tag |-> t, list |-> <<>>] : t \in {"rejects", "notJSON", "object", "mixedArray"} }
        \cup { [tag |-> "strings", list |-> l] : l \in SuggestionLists }

\* What the remote call of generatePackagingSuggestions can come back with: it
\* rejects, or its text is no JSON, a JSON value without the four typed
\* keys, or an object that has them.
RemotePackagings == {"rejects", "notJSON", "wrongShape", "packaging"}

\* The keys of a packaging suggestion that packagingData is modelled with.
PackagingSuggestion == [preset |-> "suggested", finish |-> "suggested"]

TextSuggestionsFailed ==
    [isError |-> TRUE,
     message |-> "Could not generate suggestions. The AI failed to return a valid response."]

PackagingSuggestionsFailed ==
    [isError |-> TRUE,
     message |-> "Could not generate packaging suggestions. The AI failed to return a valid response."]

\* The state of App and of its history hook.
appState == <<history, currentIndex, labelVariations, isLoading, loadingMessage,
              error, currentStep, triggeredAction, mockupView, overlaps, serviceVars>>

\* generateTextSuggestions from the return of its remote call: what it
\* returns, or that it threw e.
generateTextSuggestions(out) ==
    IF out.tag \in {"rejects", "notJSON"}
    THEN [threw |-> TRUE, value |-> <<>>, e |-> TextSuggestionsFailed]
    ELSE IF out.tag = "strings"
    THEN [threw |-> FALSE, value |-> out.list, e |-> TextSuggestionsFailed]
    ELSE [threw |-> FALSE, value |-> <<>>, e |-> TextSuggestionsFailed]

\* generatePackagingSuggestions from the return of its remote call; the throw
\* on a wrong shape lands in the function's own catch.
generatePackagingSuggestions(out) ==
    IF out = "packaging"
    THEN [threw |-> FALSE, value |-> PackagingSuggestion, e |-> PackagingSuggestionsFailed]
    ELSE [threw |-> TRUE, value |-> PackagingSuggestion, e |-> PackagingSuggestionsFailed]

handleGetSuggestions_unguarded(field) ==
    /\ suggestionLoadingField' = field
    /\ suggestionError' = Null
    /\ suggestions' = [field |-> field, list |-> <<>>]
    /\ pending' = Started(Op("suggestText", "suggest", NoCapture, field, Null,
                               <<Waiting>>))
    /\ UNCHANGED <<activeTab, formVars, appState>>

\* handleGetSuggestions up to its await.
handleGetSuggestions(field) ==
    IF isLoading \/ suggestionLoadingField # Null
    THEN UNCHANGED <<panelVars, pending, appState>>
    ELSE /\ suggestionLoadingField' = field
         /\ suggestionError' = Null
         /\ suggestions' = [field |-> field, list |-> <<>>]
         /\ pending' = Started(Op("suggestText", "suggest", NoCapture, field, Null,
                                    <<Waiting>>))
         /\ UNCHANGED <<activeTab, formVars, appState>>

suggestionsResolve_applies_first(op, list) ==
    /\ suggestions' = [field |-> op.target, list |-> list]
    /\ suggestionLoadingField' = Null
    /\ pending' = Finished(op)
    /\ labelData' = IF list = <<>> THEN labelData
                    ELSE [labelData EXCEPT ![op.target] = list[1]]
    /\ UNCHANGED <<suggestionError, activeTab, packagingData, appState>>

\* handleGetSuggestions from its await: generateTextSuggestions returned list.
suggestionsResolve(op, list) ==
    /\ suggestions' = [field |-> op.target, list |-> list]
    /\ suggestionLoadingField' = Null
    /\ pending' = Finished(op)
    /\ UNCHANGED <<suggestionError, activeTab, formVars, appState>>

suggestionsReject_surfaces_error(op, e) ==
    /\ suggestionError' = IF e.isError THEN e.message ELSE "Failed to get suggestions."
    /\ error' = suggestionError'
    /\ suggestions' = NoSuggestions
    /\ suggestionLoadingField' = Null
    /\ pending' = Finished(op)
    /\ UNCHANGED <<activeTab, formVars, history, currentIndex, labelVariations,
                   isLoading, loadingMessage, currentStep, triggeredAction, mockupView,
                   overlaps, serviceVars>>

\* handleGetSuggestions from its await: generateTextSuggestions threw e.
suggestionsReject(op, e) ==
    /\ suggestionError' = IF e.isError THEN e.message ELSE "Failed to get suggestions."
    /\ suggestions' = NoSuggestions
    /\ suggestionLoadingField' = Null
    /\ pending' = Finished(op)
    /\ UNCHANGED <<activeTab, formVars, appState>>

\* handleGetPackagingSuggestions up to its await.
handleGetPackagingSuggestions ==
    IF isLoading \/ suggestionLoadingField # Null
    THEN UNCHANGED <<panelVars, pending, appState>>
    ELSE /\ suggestionLoadingField' = "packaging"
         /\ suggestionError' = Null
         /\ pending' = Started(Op("suggestPackaging", "suggest", NoCapture, "packaging",
                                    Null, <<Waiting>>))
         /\ UNCHANGED <<suggestions, activeTab, formVars, appState>>

\* { ...prev, ...result }
merge(prev, result) ==
    [k \in DOMAIN prev |-> IF k \in DOMAIN result THEN result[k] ELSE prev[k]]

\* handleGetPackagingSuggestions from its await: generatePackagingSuggestions
\* returned result.
packagingResolve(op, result) ==
    /\ packagingData' = merge(packagingData, result)
    /\ suggestionLoadingField' = Null
    /\ pending' = Finished(op)
    /\ UNCHANGED <<suggestions, suggestionError, activeTab, labelData, appState>>

\* handleGetPackagingSuggestions from its await: generatePackagingSuggestions
\* threw e.
packagingReject(op, e) ==
    /\ suggestionError' = IF e.isError THEN e.message ELSE "Failed to suggest packaging."
    /\ suggestionLoadingField' = Null
    /\ pending' = Finished(op)
    /\ UNCHANGED <<suggestions, activeTab, formVars, appState>>

handleSelectSuggestion(field, value) ==
    /\ labelData' = [labelData EXCEPT ![field] = value]
    /\ suggestions' = NoSuggestions
    /\ UNCHANGED <<activeTab, suggestionError, suggestionLoadingField, pending,
                   packagingData, appState>>

\* disabled={isLoading || !!suggestionLoadingField} on the suggestion buttons.
suggestDisabled == isLoading \/ suggestionLoadingField # Null

\* isLabelGenerated={!!design.generatedLabel}
isLabelGenerated == truthy(state.generatedLabel)

\* The tab buttons; the packaging one is disabled until a label is there.
ClickTab(tab) ==
    /\ tab # activeTab
    /\ tab = "packaging" => isLabelGenerated
    /\ activeTab' = tab
    /\ event' = Event("setActiveTab", EmptyDesign)
    /\ probe' = NoProbe
    /\ UNCHANGED <<appState, pending, suggestions, suggestionError,
                   suggestionLoadingField, formVars>>

\* A suggestion button is pressed.  While suggestDisabled the button drops
\* the press, and the handler returns at once under the same condition.
ClickSuggest(field) ==
    /\ activeTab = "label"
    /\ handleGetSuggestions(field)
    /\ event' = Event("getSuggestions", EmptyDesign)
    /\ probe' = NoProbe

ClickSuggestPackaging ==
    /\ activeTab = "packaging"
    /\ handleGetPackagingSuggestions
    /\ event' = Event("getPackagingSuggestions", EmptyDesign)
    /\ probe' = NoProbe

\* The remote call of a text suggestion comes back with out and
\* generateTextSuggestions returns.
SuggestionsResolve(op, out) ==
    /\ op.kind = "suggestText"
    /\ ~generateTextSuggestions(out).threw
    /\ suggestionsResolve(op, generateTextSuggestions(out).value)
    /\ event' = Reply("suggestText.resolved", EmptyDesign, out.tag)
    /\ probe' = NoProbe

\* The remote call of a text suggestion comes back with out and
\* generateTextSuggestions throws.
SuggestionsReject(op, out) ==
    /\ op.kind = "suggestText"
    /\ generateTextSuggestions(out).threw
    /\ suggestionsReject(op, generateTextSuggestions(out).e)
    /\ event' = Reply("suggestText.rejected", EmptyDesign, out.tag)
    /\ probe' = NoProbe

PackagingResolve(op, out) ==
    /\ op.kind = "suggestPackaging"
    /\ ~generatePackagingSuggestions(out).threw
    /\ packagingResolve(op, generatePackagingSuggestions(out).value)
    /\ event' = Reply("suggestPackaging.resolved", EmptyDesign, out)
    /\ probe' = NoProbe

PackagingReject(op, out) ==
    /\ op.kind = "suggestPackaging"
    /\ generatePackagingSuggestions(out).threw
    /\ packagingReject(op, generatePackagingSuggestions(out).e)
    /\ event' = Reply("suggestPackaging.rejected", EmptyDesign, out)
    /\ probe' = NoProbe

\* SuggestionPopover: the n-th suggestion of the open list is picked.
SelectSuggestion(n) ==
    /\ activeTab = "label"
    /\ suggestions # NoSuggestions
    /\ n \in 1..Len(suggestions.list)
    /\ handleSelectSuggestion(suggestions.field, suggestions.list[n])
    /\ event' = Reply("selectSuggestion", EmptyDesign, suggestions.list[n])
    /\ probe' = NoProbe

\* SuggestionPopover: onClose={() => setSuggestions(null)}
CloseSuggestions ==
    /\ activeTab = "label"
    /\ suggestions # NoSuggestions
    /\ suggestions' = NoSuggestions
    /\ event' = Event("closeSuggestions", EmptyDesign)
    /\ probe' = NoProbe
    /\ UNCHANGED <<appState, pending, activeTab, suggestionError,
                   suggestionLoadingField, formVars>>

\* The label generation controls sit on the label tab.
PanelSubmitGenerateLabel == activeTab = "label" /\ SubmitGenerateLabel

PanelClickGenerateVariations == activeTab = "label" /\ ClickGenerateVariations

PanelNext ==
    \/ \E tab \in {"label", "packaging"} : ClickTab(tab)
    \/ \E field \in SuggestionFields : ClickSuggest(field)
    \/ ClickSuggestPackaging
    \/ \E op \in BagToSet(pending), out \in RemoteTexts : SuggestionsResolve(op, out)
    \/ \E op \in BagToSet(pending), out \in RemoteTexts : SuggestionsReject(op, out)
    \/ \E op \in BagToSet(pending), out \in RemotePackagings : PackagingResolve(op, out)
    \/ \E op \in BagToSet(pending), out \in RemotePackagings : PackagingReject(op, out)
    \/ \E n \in 1..2 : SelectSuggestion(n)
    \/ CloseSuggestions
    \/ PanelSubmitGenerateLabel
    \/ PanelClickGenerateVariations
    \/ \E n \in 1..Len(labelVariations) : ClickVariation(n)
    \/ \E op \in BagToSet(pending), result \in Payloads : ServiceResolves(op, result)
    \/ \E op \in { o \in BagToSet(pending) : o.stage = "call" } :
           \E e \in Thrown(op.kind) : ServiceRejects(op, e)
    \/ \E op \in BagToSet(pending), results \in VariationReplies :
           VariationsResolve(op, results)
    \/ \E op \in BagToSet(pending), k \in 1..VariationCount :
           \E e \in Thrown("variations") : VariationsReject(op, k, e)

PanelSpec == Init /\ [][PanelNext]_vars

-----------------------------------------------------------------------------
(* geminiService: the image functions and the remote calls they issue.      *)
(* ServiceSpec runs one invocation at a time, with and without a logo.      *)

ServiceFunctions ==
    {"generateLabel", "generateLabelVariations", "analyzeAndGenerateFromImage",
     "refineImage"}

\* Where the body of a function stands: at the await of generateImages (the
\* colour swatch of generateLabel), at the await of generateContent, or done.
Done == {"returned", "returnedNoData", "threw"}

\* What generateImages can come back with.
ImagesReplies == {"images", "noImages", "rejects"}

\* What generateContent can come back with: a part with inline data, one
\* whose data is empty, no such part, or a rejection.
ContentReplies == {"data", "emptyData", "noInlinePart", "rejects"}

\* generateLabel up to its first await: with a logo the logo is the image
\* part, without one a swatch is requested first.
generateLabelStart(logo) == IF logo # Null THEN "content" ELSE "swatch"

\* The bodies a call of fn starts, each run to its first await.
bodies(fn, logo) ==
    CASE fn = "generateLabel" -> <<generateLabelStart(logo)>>
      [] fn = "generateLabelVariations" ->
           [k \in 1..VariationCount |-> generateLabelStart(logo)]
      [] OTHER -> <<"content">>

Count(seq, v) == Cardinality({ i \in DOMAIN seq : seq[i] = v })

\* fn is called with the logo of the current render.
invoke(fn) ==
    LET at == bodies(fn, logoFile)
    IN  service' = [fn |-> fn, at |-> at,
                    generateImages |-> Count(at, "swatch"),
                    generateContent |-> Count(at, "content")]

\* The remote call body i awaits comes back with reply, and the body runs on
\* to its next await or to its end.
remoteReturns(i, reply) ==
    CASE service.at[i] = "swatch" /\ reply = "rejects" ->
           service' = [service EXCEPT !.at[i] = "threw"]
      [] service.at[i] = "swatch" /\ reply # "rejects" ->
           service' = [service EXCEPT !.at[i] = "content",
                                      !.generateContent = @ + 1]
      [] service.at[i] = "content" ->
           service' = [service EXCEPT !.at[i] =
                          CASE reply = "data" -> "returned"
                            [] reply = "emptyData" -> "returnedNoData"
                            [] OTHER -> "threw"]

LogoReadMessage == "Could not read logo file."

\* What the service functions and the logo input leave alone.
serviceFrame ==
    <<history, currentIndex, labelVariations, isLoading, loadingMessage,
      currentStep, triggeredAction, mockupView, pending, overlaps, activeTab,
      suggestions, suggestionError, suggestionLoadingField, formVars>>

\* handleLogoChange(file) and its reader.onload.
ChooseLogo ==
    /\ logoFile' = "logo"
    /\ logoFile # logoFile'
    /\ event' = Event("logo.onload", EmptyDesign)
    /\ probe' = NoProbe
    /\ UNCHANGED <<service, error, serviceFrame>>

\* handleLogoChange(file) and its reader.onerror.
LogoReadFails ==
    /\ error' = LogoReadMessage
    /\ event' = Event("logo.onerror", EmptyDesign)
    /\ probe' = NoProbe
    /\ UNCHANGED <<serviceVars, serviceFrame>>

\* handleLogoChange(null)
RemoveLogo ==
    /\ logoFile # Null
    /\ logoFile' = Null
    /\ event' = Event("logo.removed", EmptyDesign)
    /\ probe' = NoProbe
    /\ UNCHANGED <<service, error, serviceFrame>>

\* A handler of App calls fn once every body of the last call is done.
Invoke(fn) ==
    /\ \A i \in DOMAIN service.at : service.at[i] \in Done
    /\ invoke(fn)
    /\ event' = Event("service.called", EmptyDesign)
    /\ probe' = NoProbe
    /\ UNCHANGED <<logoFile, error, serviceFrame>>

RemoteReturns(i, reply) ==
    /\ service.at[i] \notin Done
    /\ reply \in IF service.at[i] = "swatch" THEN ImagesReplies ELSE ContentReplies
    /\ remoteReturns(i, reply)
    /\ event' = Reply("remote.returned", EmptyDesign, reply)
    /\ probe' = NoProbe
    /\ UNCHANGED <<logoFile, error, serviceFrame>>

ServiceNext ==
    \/ ChooseLogo
    \/ LogoReadFails
    \/ RemoveLogo
    \/ \E fn \in ServiceFunctions : Invoke(fn)
    \/ \E i \in DOMAIN service.at, reply \in ImagesReplies \cup ContentReplies :
           RemoteReturns(i, reply)

ServiceSpec == Init /\ [][ServiceNext]_vars

-----------------------------------------------------------------------------
(* Claims about the history hook, checked under HistorySpec *)

\* C1: in every state reached by setState, undo, redo and reset the snapshot
\* sequence is non-empty and 0 <= cursor < length(sequence).
C1_CursorInRange ==
    /\ Len(history) >= 1
    /\ 0 <= currentIndex
    /\ currentIndex < Len(history)

C1_Witness ==
    /\ event.op = "undo"
    /\ Len(history) >= 3
    /\ currentIndex = 0

\* C2: a write of x that differs from the current snapshot leaves the old
\* sequence cut after the cursor, followed by x, with the cursor on the new
\* last entry: x is current, nothing can be redone, no former redo entry is left.
C2_WriteTruncatesAndAppends ==
    [][ (event'.op = "setState" /\ event'.arg # state)
          => /\ history' = Append(SubSeq(history, 1, currentIndex + 1), event'.arg)
             /\ currentIndex' = Len(history') - 1
             /\ ~(currentIndex' < Len(history') - 1)
             /\ history'[currentIndex' + 1] = event'.arg ]_vars

C2_Witness ==
    /\ event.op = "setState"
    /\ event.arg = state
    /\ currentIndex = Len(history) - 1
    /\ currentIndex >= 1
    /\ probe.phase = "other"

\* C3: a write of a snapshot structurally equal to the current one changes
\* neither the sequence, its length, the cursor, canUndo nor canRedo.
C3_EqualWriteIsNoOp ==
    [][ (event'.op = "setState" /\ event'.arg = state)
          => /\ history' = history
             /\ Len(history') = Len(history)
             /\ currentIndex' = currentIndex
             /\ (currentIndex' > 0) = canUndo
             /\ (currentIndex' < Len(history') - 1) = canRedo ]_vars

C3_Witness ==
    /\ event.op = "setState"
    /\ event.arg = state
    /\ canRedo
    /\ canUndo

\* C4: after a run of writes only, an undo followed by a redo gives back the
\* sequence, the cursor and the current snapshot that were there before the undo.
C4_UndoRedoRestores ==
    [][ (probe.phase = "undone" /\ event'.op = "redo")
          => /\ history' = probe.pre.history
             /\ currentIndex' = probe.pre.currentIndex
             /\ history'[currentIndex' + 1] = stateOf(probe.pre) ]_vars

C4_Witness ==
    /\ probe.phase = "redone"
    /\ event.op = "redo"
    /\ Len(history) >= 3
    /\ currentIndex = Len(history) - 1

\* C5: after reset(s) the sequence is exactly [s], the cursor is 0, canUndo
\* and canRedo are false and the current snapshot is s.
C5_ResetSingleEntry ==
    event.op = "reset"
        => /\ history = <<event.arg>>
           /\ currentIndex = 0
           /\ ~canUndo
           /\ ~canRedo
           /\ state = event.arg

C5_Witness ==
    /\ event.op = "reset"
    /\ event.arg # EmptyDesign
    /\ history = <<event.arg>>

\* C6: undo and redo leave the sequence alone; undo moves the cursor down by
\* one when it is above 0 and does nothing at 0; redo moves it up by one when
\* it is below the last index and does nothing there.
C6_UndoRedoMoveCursorByOne ==
    [][ /\ event'.op = "undo"
            => /\ history' = history
               /\ currentIndex' = IF currentIndex > 0 THEN currentIndex - 1
                                                      ELSE currentIndex
        /\ event'.op = "redo"
            => /\ history' = history
               /\ currentIndex' = IF currentIndex < Len(history) - 1
                                  THEN currentIndex + 1
                                  ELSE currentIndex ]_vars

C6_Witness ==
    /\ event.op = "redo"
    /\ currentIndex = 1
    /\ Len(history) = 3

-----------------------------------------------------------------------------
(* Claims about the App handlers *)

\* C7: after generateLabel succeeds with image R the history is the single
\* snapshot {label: R, front: null, back: null}: one entry, canUndo and
\* canRedo false.  (Stated as claimed; the handler writes with setDesign.)
C7_GenerateLabelResetsHistory ==
    (event.op = "single.resolved" /\ truthy(event.arg.generatedLabel))
        => /\ history = <<event.arg>>
           /\ Len(history) = 1
           /\ ~canUndo
           /\ ~canRedo

\* C8: a press on Generate Label while isLoading is true issues no service
\* call and changes neither the history, the variation set, the error, the
\* progress label nor the busy flag.
C8_BusyGenerateLabelIsNoOp ==
    [][ (isLoading /\ event'.op = "generateLabel")
          => /\ pending' = pending
             /\ history' = history
             /\ currentIndex' = currentIndex
             /\ labelVariations' = labelVariations
             /\ error' = error
             /\ loadingMessage' = loadingMessage
             /\ isLoading' = isLoading ]_vars

C8_Witness ==
    /\ isLoading
    /\ event.op = "generateLabel"
    /\ triggeredAction = "variations"
    /\ \E op \in BagToSet(pending) : op.kind = "variations"

\* The case of C9: a label, no mockup, the front view.
C9_Case ==
    /\ mockupView = "front"
    /\ state.generatedLabel \in Images
    /\ state.generatedMockup.front = Null
    /\ state.generatedMockup.back = Null

\* C9 as claimed: with the snapshot {label: A, front: null, back: null} and
\* the front view, refine fails with the no-valid-target error, calls no
\* service and leaves the history alone.
C9_RefineOfLabelOnFrontViewFails ==
    [][ (C9_Case /\ event'.op = "refine")
          => /\ error' = NoTargetMessage
             /\ pending' = pending
             /\ history' = history
             /\ currentIndex' = currentIndex ]_vars

\* C9 amended: with the snapshot {label: A, front: null, back: null} and the
\* front view, refine targets the label: it raises no error, sets the busy
\* flag, issues one service call carrying A and leaves the history alone
\* while the call is in flight.
C9_RefineOfLabelOnFrontViewTargetsLabel ==
    [][ (C9_Case /\ event'.op = "refine")
          => /\ error' = Null
             /\ isLoading'
             /\ pending' = pending (+) SetToBag({
                    Op("refine", "call", curStore, "label", state.generatedLabel,
                       <<Waiting>>)})
             /\ history' = history
             /\ currentIndex' = currentIndex ]_vars

C9_Witness ==
    /\ C9_Case
    /\ event.op = "refine"
    /\ isLoading
    /\ \E op \in BagToSet(pending) :
          op.kind = "refine" /\ op.target = "label" /\ op.image = state.generatedLabel

\* The case of C10: none of the three refine targets applies.
C10_Case ==
    /\ ~(mockupView = "front" /\ state.generatedMockup.front \in Images)
    /\ ~(mockupView = "back" /\ state.generatedMockup.back \in Images)
    /\ ~(/\ state.generatedMockup.front = Null
         /\ state.generatedMockup.back = Null
         /\ state.generatedLabel \in Images)

\* C10: when no refine target applies, refine sets the user-facing error,
\* calls no service, sets neither the busy flag nor the progress label and
\* leaves the history and the cursor alone.
C10_RefineWithoutTargetOnlySetsError ==
    [][ (C10_Case /\ event'.op = "refine")
          => /\ error' = NoTargetMessage
             /\ pending' = pending
             /\ isLoading' = isLoading
             /\ loadingMessage' = loadingMessage
             /\ history' = history
             /\ currentIndex' = currentIndex ]_vars

C10_Witness ==
    /\ C10_Case
    /\ event.op = "refine"
    /\ error = NoTargetMessage
    /\ mockupView = "front-back"
    /\ state.generatedMockup.front \in Images
    /\ state.generatedMockup.back \in Images
    /\ ~isLoading

\* C11: when refine targets a mockup slot (front on the front view, back on
\* the back view) and succeeds with R, the new current snapshot is the
\* previous one with R in that slot: the other slot and the label are as before.
C11_RefineOfMockupChangesOnlyItsSlot ==
    [][ \A op \in BagToSet(pending) :
          (/\ event'.op = "refine.resolved"
           /\ op.kind = "refine"
           /\ event'.result \in Images)
          => /\ op.target = "mockup-front"
                  => history'[currentIndex' + 1] =
                         Design(state.generatedLabel, event'.result,
                                state.generatedMockup.back)
             /\ op.target = "mockup-back"
                  => history'[currentIndex' + 1] =
                         Design(state.generatedLabel, state.generatedMockup.front,
                                event'.result) ]_vars

C11_Witness ==
    /\ event.op = "refine.resolved"
    /\ event.result = "null"
    /\ Len(history) = 2
    /\ currentIndex = 1
    /\ history[1] = Design("A", "null", "A")
    /\ history[2] = Design("A", "null", "null")

\* C12: once a generateVariations batch in which one of the 3 requests failed
\* has completed, an error is surfaced and the variation set is empty, from
\* whatever state the batch was started.  (Stated as claimed; the handler
\* never clears the set an earlier batch left.)
C12_FailedBatchLeavesNoVariations ==
    event.op = "variations.rejected"
        => /\ error # Null
           /\ labelVariations = <<>>

\* The steps in which the service call of a main operation returns or throws.
Resolved == {"single.resolved", "variations.resolved", "analyze.resolved", "refine.resolved"}

Rejected == {"single.rejected", "variations.rejected", "analyze.rejected", "refine.rejected"}

\* C13: when the service call of a main operation (generate label, generate
\* variations, analyze, refine) has resolved or rejected, the busy flag is
\* false and the progress label is empty, on success and on failure alike.
C13_CompletionClearsBusyAndLabel ==
    event.op \in Resolved \cup Rejected
        => /\ ~isLoading
           /\ loadingMessage = ""

C13_Witness ==
    /\ event.op = "refine.rejected"
    /\ error = "Could not refine image. The AI did not return an image."
    /\ ~isLoading
    /\ loadingMessage = ""

\* The step that issues the service call of each kind of operation.
Invoker ==
    [single |-> "generateLabel", variations |-> "generateVariations",
     refine |-> "refine", analyze |-> "reader.onload"]

\* C14 as claimed: when the service call of an operation fails, an error is
\* surfaced and the history and the cursor are what they were immediately
\* before the operation was invoked.  Stated for an operation that fails
\* right after it was invoked.
C14_FailureLeavesStoreOfInvocation ==
    [][ \A kind \in DOMAIN Invoker :
          (/\ probe.phase = "invoked"
           /\ event.op = Invoker[kind]
           /\ event'.op = kind \o ".rejected")
          => /\ error' # Null
             /\ history' = probe.pre.history
             /\ currentIndex' = probe.pre.currentIndex ]_vars

\* C14 amended: when the service call of an operation fails, an error is
\* surfaced and the failure leaves the history and the cursor as they were
\* immediately before it.  The handlers of generate label, analyze and
\* refine do not touch the history before their call; the handler of
\* generate variations has reset it to the single empty snapshot.
C14_FailureLeavesStore ==
    [][ /\ event'.op \in Rejected
            => /\ error' # Null
               /\ history' = history
               /\ currentIndex' = currentIndex
        /\ event'.op \in {"generateLabel", "analyzeImage", "reader.onload", "refine"}
            => /\ history' = history
               /\ currentIndex' = currentIndex
        /\ event'.op = "generateVariations"
            => /\ history' = <<EmptyDesign>>
               /\ currentIndex' = 0 ]_vars

C14_Witness ==
    /\ event.op = "single.rejected"
    /\ error = "An unknown error occurred."
    /\ Len(history) = 2
    /\ currentIndex = 1

\* The main operations whose service call has been issued and has not settled.
CallsOutstanding ==
    LET calls == { op \in BagToSet(pending) : op.stage = "call" }
    IN  BagCardinality([op \in calls |-> CopiesIn(op, pending)])

\* C15: at every moment at most one main operation has a service call
\* outstanding.  (Stated as claimed; reader.onload starts its call whatever
\* isLoading is.)
C15_OneCallOutstanding == CallsOutstanding <= 1

\* C17: after analyze-from-image succeeds with image R, whatever the history
\* was, the history is the single snapshot {label: R, front: null, back:
\* null}: canUndo and canRedo are false, no earlier design is left to undo to.
C17_AnalyzeSuccessResetsHistory ==
    (event.op = "analyze.resolved" /\ event.result \in Images)
        => /\ history = <<Design(event.result, Null, Null)>>
           /\ currentIndex = 0
           /\ ~canUndo
           /\ ~canRedo

\* An earlier history of two entries is still held by a label request in flight.
C17_Witness ==
    /\ event.op = "analyze.resolved"
    /\ event.result = "null"
    /\ history = <<Design("null", Null, Null)>>
    /\ \E op \in BagToSet(pending) :
          /\ op.kind = "single"
          /\ Len(op.cap.history) = 2
          /\ op.cap.currentIndex = 1

\* C18: generateVariations resets the history to the single empty snapshot
\* before it issues its requests; the completion of the batch does not change
\* the history; and from the moment of the invocation no snapshot that was in
\* the history before it can be reached by undo or redo.  The last part is
\* stated for the step that follows the invocation: no entry of the history
\* is a design of the earlier history, the empty design and a design written
\* by that very step apart.  (Stated as claimed; a request still in flight
\* writes through the setDesign of an earlier render.)
C18_VariationsDropEarlierSnapshots ==
    [][ /\ event'.op = "generateVariations"
            => /\ history' = <<EmptyDesign>>
               /\ currentIndex' = 0
        /\ event'.op \in {"variations.resolved", "variations.rejected"}
            => /\ history' = history
               /\ currentIndex' = currentIndex
        /\ (event.op = "generateVariations" /\ probe.phase = "invoked")
            => \A i \in 1..Len(history') :
                  \/ history'[i] = EmptyDesign
                  \/ history'[i] = event'.arg
                  \/ \A j \in 1..Len(probe.pre.history) :
                         history'[i] # probe.pre.history[j] ]_vars

\* C19: selectVariation(v) makes {label: v, front: null, back: null} the
\* current snapshot and empties the variation set; the variation images enter
\* the program when the batch completes, which leaves the history alone, so
\* none is in a snapshot before it has been selected.
C19_SelectVariationWritesSnapshot ==
    [][ /\ event'.op = "selectVariation"
            => /\ \E n \in 1..Len(labelVariations) :
                     event'.arg = Design(labelVariations[n], Null, Null)
               /\ history'[currentIndex' + 1] = event'.arg
               /\ labelVariations' = <<>>
        /\ event'.op = "variations.resolved"
            => /\ history' = history
               /\ currentIndex' = currentIndex ]_vars

C19_Witness ==
    /\ event.op = "selectVariation"
    /\ event.arg = Design("null", Null, Null)
    /\ state = event.arg
    /\ labelVariations = <<>>
    /\ history = <<EmptyDesign, event.arg>>

-----------------------------------------------------------------------------
(* Claims about the suggestion requests, checked under PanelSpec *)

\* C16: a suggestion request is never in flight together with a main
\* generation operation, whichever started first: the two busy flags are
\* never set together and at most one asynchronous operation runs.  (Stated
\* as claimed; the generation controls do not look at the suggestion flag.)
C16_SuggestionAndGenerationExclusive ==
    /\ ~(isLoading /\ suggestionLoadingField # Null)
    /\ BagCardinality(pending) <= 1

\* The steps of the two suggestion handlers.
SuggestionSteps ==
    {"getSuggestions", "getPackagingSuggestions", "suggestText.resolved",
     "suggestText.rejected", "suggestPackaging.resolved", "suggestPackaging.rejected"}

\* C20: a text suggestion or a packaging suggestion, on success and on
\* failure, leaves the history, the cursor, the variation set, the main busy
\* flag and the error unchanged.
C20_SuggestionsLeaveAppStateAlone ==
    [][ event'.op \in SuggestionSteps
          => /\ history' = history
             /\ currentIndex' = currentIndex
             /\ labelVariations' = labelVariations
             /\ isLoading' = isLoading
             /\ error' = error ]_vars

C20_Witness ==
    /\ event.op = "suggestText.rejected"
    /\ suggestionError = TextSuggestionsFailed.message
    /\ isLoading
    /\ Len(labelVariations) = VariationCount
    /\ error = Null

-----------------------------------------------------------------------------
(* More claims about handleRefine, checked under HandlerSpec *)

\* The image the priority rule names for a design and a view, Null when the
\* rule names none: the front mockup on the front view, else the back mockup
\* on the back view, else the label when both mockup slots are empty.
C21_RuleImage(design, view) ==
    IF view = "front" /\ design.generatedMockup.front \in Images
    THEN design.generatedMockup.front
    ELSE IF view = "back" /\ design.generatedMockup.back \in Images
    THEN design.generatedMockup.back
    ELSE IF /\ design.generatedMockup.front = Null
            /\ design.generatedMockup.back = Null
            /\ design.generatedLabel \in Images
    THEN design.generatedLabel
    ELSE Null

C21_RuleTarget(design, view) ==
    IF view = "front" /\ design.generatedMockup.front \in Images THEN "mockup-front"
    ELSE IF view = "back" /\ design.generatedMockup.back \in Images THEN "mockup-back"
    ELSE "label"

\* C21: for every view and every design, a refine invoked on them sends to
\* the service exactly the image the priority rule names at the invocation
\* (the front mockup on the front view if there is one, else the back mockup
\* on the back view if there is one, else the label if both slots are empty
\* and there is a label), as one call; where the rule names no image no call
\* is issued.
C21_RefineSendsRuleTarget ==
    [][ event'.op = "refine"
          => LET image == C21_RuleImage(state, mockupView)
             IN  IF image = Null
                 THEN pending' = pending
                 ELSE pending' =
                        pending (+) SetToBag({Op("refine", "call", curStore,
                                                 C21_RuleTarget(state, mockupView),
                                                 image, <<Waiting>>)}) ]_vars

C21_Witness ==
    /\ event.op = "refine"
    /\ mockupView = "back"
    /\ state = Design("A", "A", "null")
    /\ \E op \in BagToSet(pending) :
          op.kind = "refine" /\ op.target = "mockup-back" /\ op.image = "null"

-----------------------------------------------------------------------------
(* More claims about the App, checked under Spec *)

\* C22: the step in which a new generation request begins (generate label
\* with its button enabled, generate variations, the analyze request once
\* its file is read) leaves the variation set empty, so that no set of an
\* earlier request is there while the new one is in flight or after it has
\* failed.  (Stated as claimed; handleGenerateVariations does not clear the
\* set.)
C22_NewRequestClearsVariations ==
    [][ (\/ event'.op = "generateLabel" /\ ~controlDisabled
         \/ event'.op = "generateVariations"
         \/ event'.op = "reader.onload")
          => labelVariations' = <<>> ]_vars

-----------------------------------------------------------------------------
(* Claims about the service functions, checked under ServiceSpec *)

\* The remote calls the running service function has issued.
RemoteCalls == service.generateImages + service.generateContent

\* C23: from the moment it is called, generateLabel, analyzeAndGenerateFromImage
\* and refineImage have issued exactly one remote call and
\* generateLabelVariations exactly 3, with a logo and without one.  (Stated
\* as claimed; without a logo generateLabel first requests a colour swatch.)
C23_OneRemoteCallPerImage ==
    service.fn # "idle"
        => RemoteCalls = IF service.fn = "generateLabelVariations"
                         THEN VariationCount ELSE 1

-----------------------------------------------------------------------------
(* More claims about suggestion requests, checked under PanelSpec *)

\* C24: a suggestion request whose remote output has not the expected shape
\* (an array of strings for a text field; an object with preset, finish,
\* height and diameter for packaging) fails and sets the suggestion error;
\* a text answer that is JSON but no array of strings is such a failure.
\* (Stated as claimed; generateTextSuggestions returns [] for it.)
C24_WrongShapeFails ==
    [][ /\ (/\ event'.op \in {"suggestText.resolved", "suggestText.rejected"}
            /\ event'.result # "strings")
           => /\ event'.op = "suggestText.rejected"
              /\ suggestionError' = TextSuggestionsFailed.message
        /\ (/\ event'.op \in {"suggestPackaging.resolved", "suggestPackaging.rejected"}
            /\ event'.result # "packaging")
           => /\ event'.op = "suggestPackaging.rejected"
              /\ suggestionError' = PackagingSuggestionsFailed.message ]_vars

\* C27: the steps of a text suggestion request (the press, the return, the
\* failure) leave labelData alone; a pick sets the field of the open list to
\* the picked value, leaves the other field alone and closes the list; a
\* packaging request changes packagingData only when it succeeds, by merging
\* the suggestion into it, and never on the press or on failure.
C27_SuggestionsAndFormState ==
    [][ /\ event'.op \in {"getSuggestions", "suggestText.resolved",
                          "suggestText.rejected", "closeSuggestions"}
           => labelData' = labelData /\ packagingData' = packagingData
        /\ event'.op = "selectSuggestion"
           => /\ labelData' = [labelData EXCEPT ![suggestions.field] = event'.result]
              /\ \E n \in 1..Len(suggestions.list) : suggestions.list[n] = event'.result
              /\ suggestions' = NoSuggestions
              /\ packagingData' = packagingData
        /\ event'.op \in {"getPackagingSuggestions", "suggestPackaging.rejected"}
           => labelData' = labelData /\ packagingData' = packagingData
        /\ event'.op = "suggestPackaging.resolved"
           => /\ labelData' = labelData
              /\ packagingData' =
                   [packagingData EXCEPT !.preset = PackagingSuggestion.preset,
                                         !.finish = PackagingSuggestion.finish] ]_vars

C27_Witness ==
    /\ event.op = "selectSuggestion"
    /\ event.result = "t"
    /\ labelData = [InitialLabelData EXCEPT !.tagline = "t"]
    /\ suggestions = NoSuggestions
    /\ packagingData.preset = "suggested"
    /\ packagingData.placement = InitialPackagingData.placement

-----------------------------------------------------------------------------
(* Claims about overlapping and completing operations, checked under Spec   *)
(* and, for what finally happens, under LiveSpec                            *)

\* An operation of this kind has issued its service call and not heard back.
CallPending(kind) ==
    \E op \in BagToSet(pending) : op.kind = kind /\ op.stage = "call"

ReadPending == \E op \in BagToSet(pending) : op.stage = "read"

\* C25: when every service call returns or throws and every file read ends,
\* each operation that has issued its call comes to the step in which the
\* call has resolved or rejected, and in that state the busy flag is false
\* and the generation controls are enabled again; a file being read comes
\* to its onload or onerror; and a true busy flag always becomes false.
C25_StartedOperationsComplete ==
    /\ \A kind \in Kinds :
          CallPending(kind)
              ~> (/\ event.op \in {kind \o ".resolved", kind \o ".rejected"}
                  /\ ~isLoading
                  /\ ~controlDisabled)
    /\ ReadPending ~> (event.op \in {"reader.onload", "reader.onerror"})
    /\ isLoading ~> ~isLoading

C25_Witness ==
    /\ event.op = "analyze.rejected"
    /\ error = "Could not generate a similar design. The AI did not return an image."
    /\ ~isLoading
    /\ ~controlDisabled
    /\ pending = EmptyBag

\* C26: while the service call of an operation has not returned, no step
\* makes a true busy flag false.  (Stated as claimed; the completion of
\* another operation's call does.)
C26_HungCallKeepsBusy ==
    [][ \A op \in BagToSet(pending) :
          (/\ op.stage = "call"
           /\ isLoading
           /\ op \in BagToSet(pending')
           /\ CopiesIn(op, pending') >= CopiesIn(op, pending))
          => isLoading' ]_vars

\* C28: the variation set is always empty or 3 images; it changes only by
\* being emptied or, when a batch resolves, by becoming the results of that
\* batch in request order.
C28_VariationsAreOneWholeBatch ==
    /\ [](\/ labelVariations = <<>>
          \/ /\ Len(labelVariations) = VariationCount
             /\ \A j \in 1..VariationCount : labelVariations[j] \in Images)
    /\ [][ labelVariations' # labelVariations
             => \/ labelVariations' = <<>>
                \/ /\ event'.op = "variations.resolved"
                   /\ labelVariations' = event'.result ]_vars

C28_Witness ==
    /\ event.op = "variations.resolved"
    /\ labelVariations = <<"A", "null", "A">>
    /\ ~isLoading

\* The snapshot a resolved generate label or refine hands to setDesign,
\* computed from the snapshot st captured at the invocation.
C29_NewSnapshot(op, st, result) ==
    CASE op.target = "mockup-front" ->
           Design(st.generatedLabel, result, st.generatedMockup.back)
      [] op.target = "mockup-back" ->
           Design(st.generatedLabel, st.generatedMockup.front, result)
      [] OTHER -> Design(result, Null, Null)

\* C29: when the call of a generate label or a refine resolves with an
\* image, the history becomes the history captured at the invocation cut
\* after the captured cursor, with the new snapshot appended and the cursor
\* on it, whatever the history and the cursor have become in between; if
\* the new snapshot equals the captured current one nothing is written.
C29_CompletionWritesFromCapture ==
    [][ \A op \in BagToSet(pending) :
          (/\ event'.op \in {"single.resolved", "refine.resolved"}
           /\ event'.op = op.kind \o ".resolved"
           /\ op.stage = "call"
           /\ pending' = Finished(op)
           /\ event'.result \in Images)
          => LET captured == op.cap.history[op.cap.currentIndex + 1]
                 new == C29_NewSnapshot(op, captured, event'.result)
             IN  IF new = captured
                 THEN history' = history /\ currentIndex' = currentIndex
                 ELSE /\ history' =
                           Append(SubSeq(op.cap.history, 1, op.cap.currentIndex + 1), new)
                      /\ currentIndex' = op.cap.currentIndex + 1 ]_vars

C29_Witness ==
    /\ event.op = "single.resolved"
    /\ history = <<EmptyDesign, Design("A", Null, Null), Design("null", Null, Null)>>
    /\ currentIndex = 2
    /\ CallPending("variations")

\* C30: whenever a main operation has a service call outstanding the busy
\* flag is true.  (Stated as claimed; the finally block of runGeneration
\* clears the flag whatever else is in flight.)
C30_BusyWhileCallOutstanding == CallsOutstanding >= 1 => isLoading

-----------------------------------------------------------------------------
(* Claims about what the App can reach from its initial state, checked      *)
(* under Spec                                                               *)

NoMockup(design) ==
    design.generatedMockup.front = Null /\ design.generatedMockup.back = Null

\* C31: in every state the App reaches from its initial state, both mockup
\* slots of every history snapshot are null, in the history and in the
\* history every pending operation captured, and every refine in flight
\* targets the label image.
C31_MockupSlotsStayNull ==
    /\ \A i \in 1..Len(history) : NoMockup(history[i])
    /\ \A op \in BagToSet(pending) :
          /\ \A i \in 1..Len(op.cap.history) : NoMockup(op.cap.history[i])
          /\ op.kind = "refine" => op.target = "label" /\ op.image \in Images

C31_Witness ==
    /\ event.op = "refine.resolved"
    /\ Len(history) = 3
    /\ currentIndex = 2
    /\ state = Design("null", Null, Null)
    /\ history[2] = Design("A", Null, Null)
    /\ CallPending("refine")

-----------------------------------------------------------------------------
(* Claims about a refine and the view, checked under HandlerSpec *)

\* C32: a refine that succeeds with an image other than the one it sent
\* appends exactly one snapshot after the cursor and moves the cursor onto
\* it; an undo taken right after it leaves the history alone and shows the
\* snapshot the refine was invoked on; a redo taken right after that undo
\* shows the refined snapshot again.
C32_RefineIsOneUndoableWrite ==
    [][ /\ \A op \in BagToSet(pending) :
             (/\ event'.op = "refine.resolved"
              /\ op.kind = "refine"
              /\ event'.result \in Images
              /\ event'.result # op.image)
             => /\ history' = Append(SubSeq(history, 1, currentIndex + 1), event'.arg)
                /\ currentIndex' = currentIndex + 1
                /\ event'.arg # state
                /\ probe'.phase = "writes"
                /\ stateOf(probe'.pre) = state
        /\ (/\ event.op = "refine.resolved"
            /\ probe.phase = "writes"
            /\ event'.op = "undo")
           => /\ history' = history
              /\ currentIndex' = currentIndex - 1
              /\ history'[currentIndex' + 1] = stateOf(probe.pre)
              /\ stateOf(probe'.pre) = event.arg
        /\ (/\ event.op = "undo"
            /\ probe.phase = "undone"
            /\ event'.op = "redo")
           => /\ history' = history
              /\ currentIndex' = currentIndex + 1
              /\ history'[currentIndex' + 1] = stateOf(probe.pre) ]_vars

C32_Witness ==
    /\ event.op = "redo"
    /\ probe.phase = "redone"
    /\ history = <<Design("A", "A", "null"), Design("A", "null", "null")>>
    /\ currentIndex = 1
    /\ ~isLoading

\* C34: the slot a refine writes its result into is the target fixed when
\* handleRefine was invoked.  Whatever the mockup view is when the call
\* returns, a front target replaces the front slot only, a back target the
\* back slot only and a label target the whole design; changing the view
\* while the call is in flight leaves the call, its target and the history
\* as they are.
C34_SlotFixedAtInvocation ==
    [][ /\ \A op \in BagToSet(pending) :
              (/\ event'.op = "refine.resolved"
               /\ op.kind = "refine"
               /\ event'.result \in Images
               /\ mockupView \in MockupViews)
              => LET new == history'[currentIndex' + 1]
                     old == stateOf(op.cap)
                 IN  CASE op.target = "mockup-front" ->
                            /\ new.generatedMockup.front = event'.result
                            /\ new.generatedMockup.back = old.generatedMockup.back
                            /\ new.generatedLabel = old.generatedLabel
                       [] op.target = "mockup-back" ->
                            /\ new.generatedMockup.back = event'.result
                            /\ new.generatedMockup.front = old.generatedMockup.front
                            /\ new.generatedLabel = old.generatedLabel
                       [] OTHER ->
                            /\ op.target = "label"
                            /\ new = Design(event'.result, Null, Null)
        /\ event'.op = "setMockupView"
              => /\ mockupView' # mockupView
                 /\ pending' = pending
                 /\ history' = history
                 /\ currentIndex' = currentIndex ]_vars

\* The front slot was refined although the view had been switched to the
\* back while the call was in flight.
C34_Witness ==
    /\ event.op = "refine.resolved"
    /\ event.result = "null"
    /\ mockupView = "back"
    /\ history = <<Design("A", "A", "A"), Design("A", "null", "A")>>
    /\ currentIndex = 1
    /\ pending = EmptyBag

-----------------------------------------------------------------------------
(* Claims about variations and about the error, checked under Spec *)

\* C33: the selection of a variation v, which can only follow a successful
\* generateVariations, leaves the history [empty snapshot, {label: v}] with
\* the cursor at 1, so that canUndo is true, and the variation set empty; an
\* undo taken right after it shows the empty design and leaves the set
\* empty.  (Stated as claimed; an operation that overlaps the batch can
\* rewrite the history the batch had reset.)
C33_SelectionAfterVariations ==
    [][ /\ event'.op = "selectVariation"
           => /\ history' = <<EmptyDesign, event'.arg>>
              /\ currentIndex' = 1
              /\ labelVariations' = <<>>
        /\ (event.op = "selectVariation" /\ event'.op = "undo")
           => /\ history'[currentIndex' + 1] = EmptyDesign
              /\ labelVariations' = <<>> ]_vars

\* A step in which a main operation enters its service call.
EntersCall ==
    \E op \in BagToSet(pending') :
       /\ op.stage = "call"
       /\ CopiesIn(op, pending') > CopiesIn(op, pending)

\* The errors that no service call produced.
LocalErrors == {NoTargetMessage, FileReadMessage}

\* The steps in which an operation fails and surfaces its own message.
Failures == Rejected \cup {"reader.onerror", "refine"}

-----------------------------------------------------------------------------
(* Claims about the suggestion busy flag, checked under PanelSpec *)

\* The steps in which a suggestion request completes.
SuggestionCompletions ==
    {"suggestText.resolved", "suggestText.rejected",
     "suggestPackaging.resolved", "suggestPackaging.rejected"}

\* C36: when a suggestion request completes, by returning or by throwing,
\* the suggestion busy flag, set until then, is null; a suggestion request
\* invoked while the suggestion busy flag or the main busy flag is set starts
\* no call and leaves the panel, the forms and the App as they are.
C36_SuggestionFlagAndGuard ==
    [][ /\ event'.op \in SuggestionCompletions
           => /\ suggestionLoadingField # Null
              /\ suggestionLoadingField' = Null
        /\ (/\ event'.op \in {"getSuggestions", "getPackagingSuggestions"}
            /\ isLoading \/ suggestionLoadingField # Null)
           => /\ pending' = pending
              /\ UNCHANGED <<panelVars, appState>> ]_vars

\* A suggestion was asked for while a generation was running: nothing started.
C36_Witness ==
    /\ event.op = "getSuggestions"
    /\ isLoading
    /\ suggestionLoadingField = Null
    /\ suggestions = NoSuggestions
    /\ suggestionError = Null
    /\ BagCardinality(pending) = 1
    /\ \A op \in BagToSet(pending) : op.kind = "single"

====
